---- MODULE Spec2Model ----
(***************************************************************************)
(* pigo tidy (cmd/tidy.go): the unused-dependency pruning of                *)
(* requirements.txt.  cmd/tidy.go holds two successive versions of the      *)
(* command; the model follows the later one (lines 401-833).  Strings are   *)
(* TLA+ strings handled character by character with Len, SubSeq and \o,     *)
(* the way the Go and Python code handles them.                             *)
(***************************************************************************)
EXTENDS Integers, Sequences, FiniteSets, TLC

(***************************************************************************)
(* String primitives of the Go and Python standard libraries used by the   *)
(* code, restricted to ASCII.                                               *)
(***************************************************************************)
Ch(s, i) == SubSeq(s, i, i)

Range(q) == {q[i] : i \in 1..Len(q)}

UpperChars == "ABCDEFGHIJKLMNOPQRSTUVWXYZ"

LowerChars == "abcdefghijklmnopqrstuvwxyz"

WhiteSpace == {" ", "\t", "\n", "\r"}

\* strings.Index(s, c) for a one-character c, 1-based; 0 when c is absent
\* (Go's -1).
RECURSIVE IndexFrom(_, _, _)
IndexFrom(s, cs, i) ==
    IF i > Len(s) THEN 0
    ELSE IF Ch(s, i) \in cs THEN i
    ELSE IndexFrom(s, cs, i + 1)

Index(s, c) == IndexFrom(s, {c}, 1)

LowerOf == [c \in {Ch(UpperChars, k) : k \in 1..26} |-> Ch(LowerChars, Index(UpperChars, c))]

LowerChar(c) == IF c \in DOMAIN LowerOf THEN LowerOf[c] ELSE c

\* strings.ToLower / str.lower
RECURSIVE ToLower(_)
ToLower(s) ==
    IF s = "" THEN "" ELSE LowerChar(Ch(s, 1)) \o ToLower(SubSeq(s, 2, Len(s)))

\* strings.EqualFold
EqualFold(a, b) == ToLower(a) = ToLower(b)

RECURSIVE TrimLeft(_)
TrimLeft(s) ==
    IF s # "" /\ Ch(s, 1) \in WhiteSpace THEN TrimLeft(SubSeq(s, 2, Len(s))) ELSE s

RECURSIVE TrimRight(_)
TrimRight(s) ==
    IF s # "" /\ Ch(s, Len(s)) \in WhiteSpace
    THEN TrimRight(SubSeq(s, 1, Len(s) - 1))
    ELSE s

\* strings.TrimSpace / str.strip
TrimSpace(s) == TrimRight(TrimLeft(s))

\* strings.HasPrefix / strings.HasSuffix (str.endswith)
HasPrefix(s, p) == Len(s) >= Len(p) /\ SubSeq(s, 1, Len(p)) = p

HasSuffix(s, p) == Len(s) >= Len(p) /\ SubSeq(s, Len(s) - Len(p) + 1, Len(s)) = p

\* strings.ReplaceAll for one-character old and new
RECURSIVE ReplaceAll(_, _, _)
ReplaceAll(s, old, new) ==
    IF s = "" THEN ""
    ELSE (IF Ch(s, 1) = old THEN new ELSE Ch(s, 1))
         \o ReplaceAll(SubSeq(s, 2, Len(s)), old, new)

\* The part of s before the first character of cs, all of s when there is
\* none: parts[0] of a split.
Before(s, cs) ==
    LET k == IndexFrom(s, cs, 1)
    IN  IF k = 0 THEN s ELSE SubSeq(s, 1, k - 1)

(***************************************************************************)
(* parsePackageName: the package name of a manifest line.                  *)
(***************************************************************************)
\* The characters of the regular expression ([<>=~;]+)
ComparatorChars == {"<", ">", "=", "~", ";"}

\* Variant: the comment is not cut off before the name is taken
parsePackageName_KeepComment(line) ==
    LET trimmed == TrimSpace(line)
        part0   == TrimSpace(Before(trimmed, ComparatorChars))
    IN  IF trimmed = "" THEN ""
        ELSE IF Index(part0, "[") # 0
             THEN TrimSpace(Before(part0, {"["}))
             ELSE part0

\* Variant: the extras suffix is left on the name
parsePackageName_KeepExtras(line) ==
    LET trimmed == TrimSpace(Before(line, {"#"}))
    IN  IF trimmed = "" THEN "" ELSE TrimSpace(Before(trimmed, ComparatorChars))

parsePackageName(line) ==
    LET noComment == Before(line, {"#"})
        trimmed   == TrimSpace(noComment)
        part0     == TrimSpace(Before(trimmed, ComparatorChars))
    IN  IF trimmed = "" THEN ""
        ELSE IF Index(part0, "[") # 0
             THEN TrimSpace(Before(part0, {"["}))
             ELSE part0

\* getRootModule: the first dot-separated segment
getRootModule(moduleName) == Before(moduleName, {"."})

defaultIgnoreList ==
    {"pytest", "black", "flake8", "mypy", "pylint", "ipython", "gunicorn",
     "uvicorn", "wheel", "setuptools", "pip", "tox", "pre-commit", "poetry"}

(***************************************************************************)
(* Manifest file I/O: bufio.Scanner with bufio.ScanLines on the way in,     *)
(* fmt.Fprintln on the way out.                                             *)
(***************************************************************************)
\* bufio.MaxScanTokenSize, the limit of the Scanner made by bufio.NewScanner
MaxScanTokenSize == 65536

\* dropCR of bufio.ScanLines
dropCR(data) ==
    IF data # "" /\ Ch(data, Len(data)) = "\r"
    THEN SubSeq(data, 1, Len(data) - 1)
    ELSE data

\* The error of a Scanner whose buffer is full and holds no complete token
ErrTooLong == "bufio.Scanner: token too long"

\* The initial size of the buffer of the Scanner, which doubles when it is
\* full and holds no complete token
startBufSize == 4096

\* bytes.IndexByte(data, c) of bufio.ScanLines over the buffered bytes of
\* data, 1-based, with the buffer grown from size until c is in it, the data
\* are all in it, or it has MaxScanTokenSize bytes; 0 when c is not found
RECURSIVE IndexByte(_, _, _)
IndexByte(data, c, size) ==
    LET n    == IF Len(data) < size THEN Len(data) ELSE size
        hits == {i \in 1..n : Ch(data, i) = c}
    IN  IF hits # {} THEN CHOOSE i \in hits : \A j \in hits : i <= j
        ELSE IF n = Len(data) \/ size >= MaxScanTokenSize THEN 0
        ELSE IndexByte(data, c, 2 * size)

\* The Scanner run to its end over data: the tokens Scan() delivers and the
\* error it is left with.  Scan() returns false at the end of the data, and
\* also, with ErrTooLong, at a line that does not fit the buffer.
\* One more token in front of what the Scanner delivers after it
Token(raw, next) == [lines |-> <<dropCR(raw)>> \o next.lines, err |-> next.err]

RECURSIVE Scanner(_)
Scanner(data) ==
    IF data = "" THEN [lines |-> <<>>, err |-> ""]
    ELSE LET k == IndexByte(data, "\n", startBufSize)
         IN  IF k = 0 /\ Len(data) >= MaxScanTokenSize
             THEN [lines |-> <<>>, err |-> ErrTooLong]
             ELSE IF k = 0 THEN Token(data, Scanner(""))
             ELSE Token(SubSeq(data, 1, k - 1), Scanner(SubSeq(data, k + 1, Len(data))))

\* for scanner.Scan() { ... scanner.Text() ... }: the lines the loop sees;
\* the loop does not look at scanner.Err().
ScanLines(data) == Scanner(data).lines

\* Variant: fmt.Fprint in place of fmt.Fprintln
RECURSIVE WriteLines_Fprint(_)
WriteLines_Fprint(lines) ==
    IF lines = <<>> THEN "" ELSE Head(lines) \o WriteLines_Fprint(Tail(lines))

\* for _, l := range newLines { fmt.Fprintln(w, l) }
RECURSIVE WriteLines(_)
WriteLines(lines) ==
    IF lines = <<>> THEN "" ELSE Head(lines) \o "\n" \o WriteLines(Tail(lines))

\* reqPackages: the non-empty parsed names, in line order
RECURSIVE PackagesOf(_)
PackagesOf(lines) ==
    IF lines = <<>> THEN <<>>
    ELSE LET pkgName == parsePackageName(Head(lines))
         IN  (IF pkgName # "" THEN <<pkgName>> ELSE <<>>) \o PackagesOf(Tail(lines))

(***************************************************************************)
(* pythonMapperScript: the metadata query run in the Python environment.   *)
(* A distribution is [name, top_level, files, requires]: top_level is the   *)
(* split() of top_level.txt (empty when the file is absent), files the      *)
(* recorded paths, requires the declared requirement specifiers.            *)
(***************************************************************************)
ReqStopChars == {"(", ";", "<", ">", "="}

parse_req_name(req_str) ==
    IF req_str = "" THEN ""
    ELSE ToLower(TrimSpace(Before(req_str, ReqStopChars)))

\* importlib.metadata matches distribution names case-insensitively, with
\* '-', '_' and '.' taken as the same character.
Canon(name) == ReplaceAll(ReplaceAll(ToLower(name), "-", "_"), ".", "_")

get_import_names_from_files(dist) ==
    LET Top(path) == Before(path, {"/"})
        Kept == {path \in dist.files :
                    ~ (\/ HasSuffix(Top(path), ".dist-info")
                       \/ HasSuffix(Top(path), ".egg-info")
                       \/ Top(path) = "__pycache__")}
    IN  {IF HasSuffix(Top(path), ".py")
         THEN SubSeq(Top(path), 1, Len(Top(path)) - 3)
         ELSE Top(path) : path \in Kept}

\* The info record of one requested name
PackageInfoOf(dists, pkg_raw) ==
    LET pkg   == TrimSpace(Before(pkg_raw, {"["}))
        found == {d \in dists : pkg # "" /\ Canon(d.name) = Canon(pkg)}
    IN  IF found = {}
        THEN [imports  |-> {ReplaceAll(ToLower(pkg), "-", "_"), pkg},
              requires |-> {}]
        ELSE LET dist     == CHOOSE d \in found : TRUE
                 detected == get_import_names_from_files(dist)
             IN  [imports  |-> IF dist.top_level # <<>> THEN Range(dist.top_level)
                               ELSE IF detected # {} THEN detected
                               ELSE {ReplaceAll(ToLower(pkg), "-", "_")},
                  requires |-> {parse_req_name(req) : req \in Range(dist.requires)}
                                   \ {""}]

\* result[pkg_raw] = info for every requested name
get_package_info(dists, package_names) ==
    [pkg_raw \in Range(package_names) |-> PackageInfoOf(dists, pkg_raw)]

\* fetchPackageInfo: [err, result].  cmd.Output() fails when python cannot
\* be started or exits non-zero; an output that is not JSON leaves result
\* nil, and the error of json.Unmarshal is dropped.
fetchPackageInfo(pyenv, packageNames) ==
    CASE pyenv.python = "failed"  -> [err |-> TRUE,  result |-> <<>>]
      [] pyenv.python = "garbage" -> [err |-> FALSE, result |-> <<>>]
      [] OTHER -> [err |-> FALSE, result |-> get_package_info(pyenv.dists, packageNames)]

(***************************************************************************)
(* Import extraction over the syntax tree.  A node is                       *)
(* [type, text, name, modIdx, children]: text is Content(src), name the     *)
(* content of the "name" field of an aliased_import, modIdx the position    *)
(* among the children of the "module_name" child (0 when there is none).    *)
(***************************************************************************)
Node(type, text, name, modIdx, children) ==
    [type |-> type, text |-> text, name |-> name, modIdx |-> modIdx,
     children |-> children]

\* Variant: the content of the node, whatever its type
resolveModuleName_Content(n) == n.text

resolveModuleName(n) == IF n.type = "aliased_import" THEN n.name ELSE n.text

RECURSIVE NamesFrom(_, _, _)
NamesFrom(children, modIdx, i) ==
    IF i > Len(children) THEN <<>>
    ELSE (IF children[i].type \in {"dotted_name", "aliased_import"} /\ i # modIdx
          THEN <<resolveModuleName(children[i])>> ELSE <<>>)
         \o NamesFrom(children, modIdx, i + 1)

\* A field that the node does not have: ChildByFieldName returns nil
NoNode == Node("nil", "", "", 0, <<>>)

RECURSIVE ResolveAll(_)
ResolveAll(children) ==
    IF children = <<>> THEN <<>>
    ELSE <<resolveModuleName(Head(children))>> \o ResolveAll(Tail(children))

getImportNames(n) == IF n = NoNode THEN <<>> ELSE ResolveAll(n.children)

\* The names of a from-import: its dotted_name and aliased_import children
\* other than the module, else those of its "names" field, a field the
\* import_from_statement node does not have
FromNames(n) ==
    LET names == NamesFrom(n.children, n.modIdx, 1)
    IN  IF Len(names) = 0 THEN getImportNames(NoNode) ELSE names

RECURSIVE ImportTargets(_)
ImportTargets(children) ==
    IF children = <<>> THEN <<>>
    ELSE (IF resolveModuleName(Head(children)) # ""
          THEN <<[Type |-> "import", Module |-> resolveModuleName(Head(children)),
                  Names |-> <<>>]>>
          ELSE <<>>)
         \o ImportTargets(Tail(children))

RECURSIVE extractImports(_)
RECURSIVE WalkAll(_)
WalkAll(nodes) ==
    IF nodes = <<>> THEN <<>> ELSE extractImports(Head(nodes)) \o WalkAll(Tail(nodes))

extractImports(n) ==
    (CASE n.type = "import_statement" -> ImportTargets(n.children)
       [] n.type = "import_from_statement" ->
            <<[Type   |-> "from",
               Module |-> IF n.modIdx # 0 THEN n.children[n.modIdx].text ELSE ".",
               Names  |-> FromNames(n)]>>
       [] OTHER -> <<>>)
    \o WalkAll(n.children)

\* isLocalModule against the files of the project tree
isLocalModule(paths, moduleName) ==
    LET relPath == ReplaceAll(moduleName, ".", "/")
    IN  \/ HasPrefix(moduleName, ".")
        \/ (relPath \o ".py") \in paths
        \/ (relPath \o "/__init__.py") \in paths

\* Variant: only the root of an external module is recorded
ImportedSetOf_RootOnly(tree) ==
    LET paths   == {f.path : f \in tree}
        scanned == {f \in tree : HasSuffix(f.path, ".py") /\ f.readable}
        modules == UNION {{imp.Module : imp \in Range(extractImports(f.root))}
                          : f \in scanned}
    IN  {getRootModule(m) : m \in {m \in modules : ~ isLocalModule(paths, m)}}

\* The set importedSet built by the scan of the .py files of the tree: an
\* unreadable file is skipped, a local module adds nothing, an external one
\* adds its root and its dotted path.
ImportedSetOf(tree) ==
    LET paths   == {f.path : f \in tree}
        scanned == {f \in tree : HasSuffix(f.path, ".py") /\ f.readable}
        modules == UNION {{imp.Module : imp \in Range(extractImports(f.root))}
                          : f \in scanned}
        extern  == {m \in modules : ~ isLocalModule(paths, m)}
    IN  extern \cup {getRootModule(m) : m \in extern}

(***************************************************************************)
(* The decisions of tidyCmd.Run.                                            *)
(***************************************************************************)
\* for _, importName := range meta.ImportNames { if importedSet[importName]
\*     || importedSet[getRootModule(importName)] ... }
SurfaceHit(meta, imported) ==
    \E importName \in meta.imports :
        importName \in imported \/ getRootModule(importName) \in imported

\* Variant: the requirements of every entry are protected, used or not
ProtectedDepsOf_AllEntries(infoMap, imported) ==
    UNION {{ToLower(dep) : dep \in infoMap[k].requires} : k \in DOMAIN infoMap}

\* Variant: a second pass protects the requirements of the protected entries
ProtectedDepsOf_SecondPass(infoMap, imported) ==
    LET first == UNION {{ToLower(dep) : dep \in infoMap[k].requires}
                        : k \in {k \in DOMAIN infoMap : SurfaceHit(infoMap[k], imported)}}
    IN  first \cup UNION {{ToLower(dep) : dep \in infoMap[k].requires}
                          : k \in {k \in DOMAIN infoMap : ToLower(k) \in first}}

\* protectedDeps: the lower-cased requirements of the directly used entries
ProtectedDepsOf(infoMap, imported) ==
    UNION {{ToLower(dep) : dep \in infoMap[k].requires}
           : k \in {k \in DOMAIN infoMap : SurfaceHit(infoMap[k], imported)}}

\* Variant: the metadata is looked up under the raw line only
IsUsed_LineKeyOnly(line, infoMap, imported, protected) ==
    LET pkgName == parsePackageName(line)
    IN  \/ line \in DOMAIN infoMap /\ SurfaceHit(infoMap[line], imported)
        \/ pkgName \in imported
        \/ \E imp \in imported : EqualFold(imp, pkgName)
        \/ ToLower(pkgName) \in protected

\* Variant: step 3, the dependency protection, is left out
IsUsed_NoProtection(line, infoMap, imported, protected) ==
    LET pkgName == parsePackageName(line)
    IN  \/ pkgName \in DOMAIN infoMap /\ SurfaceHit(infoMap[pkgName], imported)
        \/ pkgName \in imported
        \/ \E imp \in imported : EqualFold(imp, pkgName)

\* Variant: an entry without metadata counts as used
IsUsed_KeepUnknown(line, infoMap, imported, protected) ==
    LET pkgName == parsePackageName(line)
    IN  \/ pkgName \notin DOMAIN infoMap
        \/ SurfaceHit(infoMap[pkgName], imported)
        \/ pkgName \in imported
        \/ \E imp \in imported : EqualFold(imp, pkgName)
        \/ ToLower(pkgName) \in protected

\* Variant: the fallback compares the name exactly, without strings.EqualFold
IsUsed_ExactFallback(line, infoMap, imported, protected) ==
    LET pkgName == parsePackageName(line)
    IN  \/ pkgName \in DOMAIN infoMap /\ SurfaceHit(infoMap[pkgName], imported)
        \/ pkgName \in imported
        \/ ToLower(pkgName) \in protected

\* Variant: the name fallback is tried only for an entry without metadata
IsUsed_FallbackWithoutMeta(line, infoMap, imported, protected) ==
    LET pkgName == parsePackageName(line)
    IN  \/ line \in DOMAIN infoMap /\ SurfaceHit(infoMap[line], imported)
        \/ pkgName \in DOMAIN infoMap /\ SurfaceHit(infoMap[pkgName], imported)
        \/ /\ line \notin DOMAIN infoMap /\ pkgName \notin DOMAIN infoMap
           /\ \/ pkgName \in imported
              \/ \E imp \in imported : EqualFold(imp, pkgName)
        \/ ToLower(pkgName) \in protected

\* Variant: the name fallback compares the raw line, not pkgName
IsUsed_RawLineFallback(line, infoMap, imported, protected) ==
    LET pkgName == parsePackageName(line)
    IN  \/ line \in DOMAIN infoMap /\ SurfaceHit(infoMap[line], imported)
        \/ pkgName \in DOMAIN infoMap /\ SurfaceHit(infoMap[pkgName], imported)
        \/ line \in imported
        \/ \E imp \in imported : EqualFold(imp, line)
        \/ ToLower(pkgName) \in protected

\* isUsed at the end of one turn of the decision loop
IsUsed(line, infoMap, imported, protected) ==
    LET pkgName  == parsePackageName(line)
        pkgLower == ToLower(pkgName)
        byLine   == line \in DOMAIN infoMap /\ SurfaceHit(infoMap[line], imported)
        byName   == pkgName \in DOMAIN infoMap
                        /\ SurfaceHit(infoMap[pkgName], imported)
        fallback == \/ pkgName \in imported
                    \/ \E imp \in imported : EqualFold(imp, pkgName)
    IN  byLine \/ byName \/ fallback \/ pkgLower \in protected

\* Variant: the allow-list is looked up with pkgName, not pkgLower
KeepLine_CaseSensitive(line, infoMap, imported, protected) ==
    LET pkgName == parsePackageName(line)
    IN  \/ pkgName = ""
        \/ pkgName \in defaultIgnoreList
        \/ IsUsed(line, infoMap, imported, protected)

\* The line is appended to newLines
KeepLine(line, infoMap, imported, protected) ==
    LET pkgName == parsePackageName(line)
    IN  \/ pkgName = ""
        \/ ToLower(pkgName) \in defaultIgnoreList
        \/ IsUsed(line, infoMap, imported, protected)

(***************************************************************************)
(* The inputs: manifests, project trees and Python environments.            *)
(***************************************************************************)
MaxLines == 3

LinePool ==
    {"Requests[socks]==2.31", "idna", "PyYAML>=6 # y", "PyTest~=7", "", "# deps"}

\* Line terminator and whether the last line is terminated
FormatPool == {[eol |-> "\n", last |-> TRUE], [eol |-> "\r\n", last |-> FALSE]}

RECURSIVE FileText(_, _)
FileText(lines, fmt) ==
    IF lines = <<>> THEN ""
    ELSE Head(lines)
         \o (IF Len(lines) > 1 \/ fmt.last THEN fmt.eol ELSE "")
         \o FileText(Tail(lines), fmt)

ManifestPool == UNION {[1..n -> LinePool] : n \in 0..MaxLines}

\* s repeated n times
RECURSIVE Repeat(_, _)
Repeat(s, n) ==
    IF n = 0 THEN ""
    ELSE IF n % 2 = 0 THEN LET half == Repeat(s, n \div 2) IN half \o half
    ELSE s \o Repeat(s, n - 1)

\* A requirement with all its hashes on one line, a line that does not fit
\* the buffer of the Scanner
LongLine == "urllib3==2.0" \o Repeat(" --hash=sha256:0", MaxScanTokenSize \div 16)

\* Manifests with such a line after lines of LinePool, the last line or
\* followed by a requirement the project uses
LongManifestPool ==
    LET before == UNION {[1..n -> LinePool] : n \in 0..(MaxLines - 2)}
        after  == {<<>>, <<"Requests[socks]==2.31">>}
    IN  {b \o <<LongLine>> \o a : b \in before, a \in after}

\* Manifests that name a package on more than one line, in different forms
SameNameLines ==
    {"idna", "idna>=3 # pinned", "Requests[socks]==2.31", "PyYAML", "PyYAML>=6 # y"}

SameNamePool == UNION {[1..n -> SameNameLines] : n \in 2..3}

Name(text) == Node("dotted_name", text, "", 0, <<>>)

Alias(name, alias) ==
    Node("aliased_import", name \o " as " \o alias, name, 0, <<>>)

Import(targets) == Node("import_statement", "", "", 0, targets)

From(module, names) ==
    Node("import_from_statement", "", "", 1,
         <<Node(IF HasPrefix(module, ".") THEN "relative_import" ELSE "dotted_name",
                module, "", 0, <<>>)>> \o names)

\* A from-import whose module_name field is missing
FromNoModule(names) == Node("import_from_statement", "", "", 0, names)

Block(type, children) == Node(type, "", "", 0, children)

PyFile(path, readable, stmts) ==
    [path |-> path, readable |-> readable, root |-> Block("module", stmts)]

\* app.py imports requests; util is a module of the project
TreeUsesRequests ==
    {PyFile("app.py", TRUE,
            <<Import(<<Alias("requests.adapters", "ra"), Name("util")>>),
              From(".", <<Name("util")>>)>>),
     PyFile("util.py", TRUE, <<Import(<<Name("os.path")>>)>>)}

\* yaml is imported inside a function and idna, under an alias, in a module
\* of the project, where one from-import came out of the parser without a
\* module; the file importing requests cannot be opened
TreeUsesYaml ==
    {PyFile("pkg/__init__.py", TRUE,
            <<Block("function_definition",
                    <<From("yaml", <<Alias("safe_load", "load")>>)>>),
              From("pkg.core", <<Name("run")>>)>>),
     PyFile("pkg/core.py", TRUE,
            <<Import(<<Alias("idna", "codec")>>),
              FromNoModule(<<Alias("dumps", "to_json")>>)>>),
     PyFile("broken.py", FALSE, <<Import(<<Name("requests")>>)>>)}

\* nothing of the manifest is imported
TreeUsesNothing ==
    {PyFile("main.py", TRUE, <<Import(<<Name("json")>>)>>),
     PyFile("README.md", TRUE, <<>>)}

\* The project trees, by name: the state holds the name
TreePool == {"uses-requests", "uses-yaml", "uses-nothing"}

TreeOf(id) ==
    CASE id = "uses-requests" -> TreeUsesRequests
      [] id = "uses-yaml" -> TreeUsesYaml
      [] OTHER -> TreeUsesNothing

Dist(name, top_level, files, requires) ==
    [name |-> name, top_level |-> top_level, files |-> files, requires |-> requires]

Installed ==
    {Dist("requests", <<"requests">>, {"requests/__init__.py"},
          <<"idna<4,>=2.5", "urllib3 (>=1.21)", "PySocks!=1.5.7; extra == 'socks'">>),
     Dist("idna", <<>>, {"idna/__init__.py", "idna-3.4.dist-info/METADATA"}, <<>>),
     Dist("PyYAML", <<"_yaml", "yaml">>, {"yaml/__init__.py"}, <<>>)}

\* The same with idna installed in editable mode from a checkout that
\* requires PyYAML: no top_level.txt, and the recorded files are the .pth
\* file and the metadata
InstalledEditable ==
    {d \in Installed : d.name # "idna"}
        \cup {Dist("idna", <<>>,
                   {"__editable__.idna-3.4.pth", "idna-3.4.dist-info/METADATA"},
                   <<"PyYAML>=5">>)}

\* The Python environments, by name: "ok" and "editable" run the script
\* against the installed distributions; in "down" python cannot be started,
\* exits non-zero, or prints something that is not JSON
EnvPool == {"ok", "editable", "down"}

\* What the query can meet in an environment
Outcomes(id) ==
    CASE id = "ok" -> {[python |-> "ok", dists |-> Installed]}
      [] id = "editable" -> {[python |-> "ok", dists |-> InstalledEditable]}
      [] OTHER -> {[python |-> "failed", dists |-> {}],
                   [python |-> "garbage", dists |-> Installed]}

(***************************************************************************)
(* The run of tidy as a state machine.                                      *)
(***************************************************************************)
VARIABLES
    reqExists,      \* requirements.txt exists at reqPath
    reqText,        \* its content
    tree,           \* the files under searchPath (a name of TreePool)
    pyenv,          \* the Python environment (a name of EnvPool)
    pc,             \* the position of Run
    originalLines, reqPackages, pkgInfoMap, importedSet, protectedDeps,
    newLines, removedCount,
    idx,            \* the index of the decision loop in originalLines
    stdout,         \* the lines printed with fmt
    stderr,         \* the diagnostics of log.Fatal / log.Fatalf
    exitCode,
    queryCount,     \* metadata queries issued in this run
    queryArgs,      \* the list of names each of them was issued with
    writeCount,     \* os.Create calls that succeeded in this run
    second,         \* this is the run that follows a completed run
    firstText,      \* the manifest as the completed first run left it
    firstRemoved,   \* the number of lines the completed first run removed
    scanErr         \* scanner.Err(): the error the Scanner stopped with, if any

vars == <<reqExists, reqText, tree, pyenv, pc, originalLines, reqPackages,
          pkgInfoMap, importedSet, protectedDeps, newLines, removedCount, idx,
          stdout, stderr, exitCode, queryCount, queryArgs, writeCount, second,
          firstText, firstRemoved, scanErr>>

world == <<tree, pyenv, second, firstText, firstRemoved>>

locals == <<originalLines, reqPackages, pkgInfoMap, importedSet, protectedDeps,
            newLines, removedCount, idx, scanErr, queryArgs>>

Msg(text, name, count) == [text |-> text, name |-> name, count |-> count]

Fresh ==
    /\ pc = "stat"
    /\ originalLines = <<>>
    /\ reqPackages = <<>>
    /\ pkgInfoMap = <<>>
    /\ importedSet = {}
    /\ protectedDeps = {}
    /\ newLines = <<>>
    /\ removedCount = 0
    /\ idx = 1
    /\ scanErr = ""
    /\ stdout = <<>>
    /\ stderr = <<>>
    /\ exitCode = 0
    /\ queryCount = 0
    /\ queryArgs = <<>>
    /\ writeCount = 0

InitWith(manifests) ==
    /\ \/ reqExists = FALSE /\ reqText = ""
       \/ /\ reqExists = TRUE
          /\ \E lines \in manifests, fmt \in FormatPool :
                reqText = FileText(lines, fmt)
    /\ tree \in TreePool
    /\ pyenv \in EnvPool
    /\ second = FALSE
    /\ firstText = ""
    /\ firstRemoved = 0
    /\ Fresh

Init == InitWith(ManifestPool)

\* The runs over a manifest that has a line too long for the Scanner
InitLongLine == InitWith(LongManifestPool)

\* The runs over a manifest that names a package on more than one line
InitSameName == InitWith(SameNamePool)

\* Variant: log.Printf in place of log.Fatalf, the run goes on
Stat_NoExit ==
    /\ pc = "stat"
    /\ pc' = "open"
    /\ IF reqExists
       THEN /\ stdout' = Append(stdout, Msg("Reading requirements.txt...", "", 0))
            /\ UNCHANGED stderr
       ELSE /\ stderr' = Append(stderr, Msg("requirements.txt not found", "", 0))
            /\ UNCHANGED stdout
    /\ UNCHANGED <<reqExists, reqText, world, locals, exitCode, queryCount, writeCount>>

\* os.Stat(reqPath): log.Fatalf when the file does not exist
Stat ==
    /\ pc = "stat"
    /\ IF reqExists
       THEN /\ pc' = "open"
            /\ stdout' = Append(stdout, Msg("Reading requirements.txt...", "", 0))
            /\ UNCHANGED <<stderr, exitCode>>
       ELSE /\ pc' = "fatal"
            /\ stderr' = Append(stderr, Msg("requirements.txt not found", "", 0))
            /\ exitCode' = 1
            /\ UNCHANGED stdout
    /\ UNCHANGED <<reqExists, reqText, world, locals, queryCount, writeCount>>

\* os.Open(reqPath) fails: log.Fatal(err)
OpenFail ==
    /\ pc = "open"
    /\ pc' = "fatal"
    /\ stderr' = Append(stderr, Msg("open requirements.txt", "", 0))
    /\ exitCode' = 1
    /\ UNCHANGED <<reqExists, reqText, world, locals, stdout, queryCount, writeCount>>

\* os.Open succeeds; the scanner loop fills originalLines and reqPackages
ReadManifest ==
    /\ pc = "open"
    /\ reqExists
    /\ \E s \in {Scanner(reqText)} :
           /\ originalLines' = s.lines
           /\ reqPackages' = PackagesOf(s.lines)
           /\ scanErr' = s.err
    /\ pc' = "fetch"
    /\ UNCHANGED <<reqExists, reqText, world, pkgInfoMap, importedSet, protectedDeps,
                   newLines, removedCount, idx, stdout, stderr, exitCode,
                   queryCount, queryArgs, writeCount>>

\* pkgInfoMap, _ := fetchPackageInfo(reqPackages)
Fetch ==
    /\ pc = "fetch"
    /\ stdout' = Append(stdout, Msg("Analyzing python environment (Smart Mode)...", "", 0))
    /\ queryCount' = queryCount + 1
    /\ queryArgs' = Append(queryArgs, reqPackages)
    /\ \E outcome \in Outcomes(pyenv) :
          pkgInfoMap' = fetchPackageInfo(outcome, reqPackages).result
    /\ pc' = "scan"
    /\ UNCHANGED <<reqExists, reqText, world, originalLines, reqPackages, importedSet,
                   protectedDeps, newLines, removedCount, idx, stderr, exitCode,
                   writeCount, scanErr>>

\* filepath.Walk and the loop over the .py files
Scan ==
    /\ pc = "scan"
    /\ stdout' = Append(stdout, Msg("Scanning code imports...", "", 0))
    /\ importedSet' = ImportedSetOf(TreeOf(tree))
    /\ pc' = "protect"
    /\ UNCHANGED <<reqExists, reqText, world, originalLines, reqPackages, pkgInfoMap,
                   protectedDeps, newLines, removedCount, idx, stderr, exitCode,
                   queryCount, queryArgs, writeCount, scanErr>>

\* the loop over pkgInfoMap that fills protectedDeps
Protect ==
    /\ pc = "protect"
    /\ protectedDeps' = ProtectedDepsOf(pkgInfoMap, importedSet)
    /\ stdout' = Append(stdout, Msg("Cleaning up...", "", 0))
    /\ pc' = "decide"
    /\ UNCHANGED <<reqExists, reqText, world, originalLines, reqPackages, pkgInfoMap,
                   importedSet, newLines, removedCount, idx, stderr, exitCode,
                   queryCount, queryArgs, writeCount, scanErr>>

\* Variant: the metadata is queried again in every turn of the loop
Decide_QueryPerLine ==
    /\ pc = "decide"
    /\ idx <= Len(originalLines)
    /\ LET line == originalLines[idx]
       IN  IF KeepLine(line, pkgInfoMap, importedSet, protectedDeps)
           THEN /\ newLines' = Append(newLines, line)
                /\ UNCHANGED <<removedCount, stdout>>
           ELSE /\ stdout' = Append(stdout, Msg("Removing: ", parsePackageName(line), 0))
                /\ removedCount' = removedCount + 1
                /\ UNCHANGED newLines
    /\ idx' = idx + 1
    /\ queryCount' = queryCount + 1
    /\ queryArgs' = Append(queryArgs, <<parsePackageName(originalLines[idx])>>)
    /\ UNCHANGED <<reqExists, reqText, world, pc, originalLines, reqPackages,
                   pkgInfoMap, importedSet, protectedDeps, stderr, exitCode,
                   writeCount, scanErr>>

\* one turn of the decision loop
Decide ==
    /\ pc = "decide"
    /\ idx <= Len(originalLines)
    /\ LET line == originalLines[idx]
       IN  IF KeepLine(line, pkgInfoMap, importedSet, protectedDeps)
           THEN /\ newLines' = Append(newLines, line)
                /\ UNCHANGED <<removedCount, stdout>>
           ELSE /\ stdout' = Append(stdout, Msg("Removing: ", parsePackageName(line), 0))
                /\ removedCount' = removedCount + 1
                /\ UNCHANGED newLines
    /\ idx' = idx + 1
    /\ UNCHANGED <<reqExists, reqText, world, pc, originalLines, reqPackages,
                   pkgInfoMap, importedSet, protectedDeps, stderr, exitCode,
                   queryCount, queryArgs, writeCount, scanErr>>

\* Variant: the file is written whether or not a line was removed
Rewrite_Always ==
    /\ pc = "decide"
    /\ idx > Len(originalLines)
    /\ reqExists' = TRUE
    /\ reqText' = WriteLines(newLines)
    /\ writeCount' = writeCount + 1
    /\ stdout' = Append(stdout, Msg("Removed %d packages.", "", removedCount))
    /\ pc' = "done"
    /\ UNCHANGED <<world, locals, stderr, exitCode, queryCount>>

\* removedCount > 0 and os.Create(reqPath) succeeds: newLines are written
Rewrite ==
    /\ pc = "decide"
    /\ idx > Len(originalLines)
    /\ removedCount > 0
    /\ reqExists' = TRUE
    /\ reqText' = WriteLines(newLines)
    /\ writeCount' = writeCount + 1
    /\ stdout' = Append(stdout, Msg("Removed %d packages.", "", removedCount))
    /\ pc' = "done"
    /\ UNCHANGED <<world, locals, stderr, exitCode, queryCount>>

\* removedCount > 0 and os.Create(reqPath) fails: log.Fatal(err)
CreateFail ==
    /\ pc = "decide"
    /\ idx > Len(originalLines)
    /\ removedCount > 0
    /\ pc' = "fatal"
    /\ stderr' = Append(stderr, Msg("create requirements.txt", "", 0))
    /\ exitCode' = 1
    /\ UNCHANGED <<reqExists, reqText, world, locals, stdout, queryCount, writeCount>>

\* removedCount = 0: nothing is written
Clean ==
    /\ pc = "decide"
    /\ idx > Len(originalLines)
    /\ removedCount = 0
    /\ stdout' = Append(stdout, Msg("Clean.", "", 0))
    /\ pc' = "done"
    /\ UNCHANGED <<reqExists, reqText, world, locals, stderr, exitCode, queryCount,
                   writeCount>>

\* The operator runs `pigo tidy` again after a run that completed, with the
\* project tree and the Python environment as they were.
Rerun ==
    /\ pc = "done"
    /\ ~ second
    /\ second' = TRUE
    /\ firstText' = reqText
    /\ firstRemoved' = removedCount
    /\ pc' = "stat"
    /\ originalLines' = <<>>
    /\ reqPackages' = <<>>
    /\ pkgInfoMap' = <<>>
    /\ importedSet' = {}
    /\ protectedDeps' = {}
    /\ newLines' = <<>>
    /\ removedCount' = 0
    /\ idx' = 1
    /\ scanErr' = ""
    /\ stdout' = <<>>
    /\ stderr' = <<>>
    /\ exitCode' = 0
    /\ queryCount' = 0
    /\ queryArgs' = <<>>
    /\ writeCount' = 0
    /\ UNCHANGED <<reqExists, reqText, tree, pyenv>>

Next ==
    \/ Stat \/ OpenFail \/ ReadManifest \/ Fetch \/ Scan \/ Protect
    \/ Decide \/ Rewrite \/ CreateFail \/ Clean \/ Rerun

Spec == Init /\ [][Next]_vars

SpecLongLine == InitLongLine /\ [][Next]_vars

SpecSameName == InitSameName /\ [][Next]_vars

(***************************************************************************)
(* Vocabulary of the properties.                                            *)
(***************************************************************************)
\* The lines the decision loop has decided so far
DecidedIdx == 1..(idx - 1)

\* parsePackageName of the lines of LinePool, computed once
NameTable == [line \in LinePool |-> parsePackageName(line)]

\* The parsed name of the i-th line read
NameOf(i) ==
    LET line == originalLines[i]
    IN  IF line \in LinePool THEN NameTable[line] ELSE parsePackageName(line)

\* The lines of the manifest as it is on disk
DiskLines == ScanLines(reqText)

\* Every decided line that satisfies P is among the kept lines and, once the
\* run is done, among the lines of the manifest on disk
AllKept(P(_)) ==
    LET kept == Range(newLines)
        disk == IF pc = "done" THEN Range(DiskLines) ELSE {}
    IN  \A i \in DecidedIdx :
            P(i) => /\ originalLines[i] \in kept
                    /\ pc = "done" => originalLines[i] \in disk

\* Some decided line satisfies P, is kept and is on disk after a run that
\* rewrote the manifest
SomeKeptAfterRewrite(P(_)) ==
    /\ pc = "done" /\ writeCount = 1
    /\ \E i \in DecidedIdx :
          P(i) /\ originalLines[i] \in Range(newLines)
               /\ originalLines[i] \in Range(DiskLines)

HasMeta(name) == name \in DOMAIN pkgInfoMap

\* The import surface of a name, or a root of one of its members, is in
\* ImportedSet
SurfaceImported(name) ==
    LET S == pkgInfoMap[name].imports
    IN  (S \cup {getRootModule(m) : m \in S}) \cap importedSet # {}

BlankOrComment(line) == TrimSpace(Before(line, {"#"})) = ""

AllowListed(name) == ToLower(name) \in defaultIgnoreList

NameImported(name) == ToLower(name) \in {ToLower(imp) : imp \in importedSet}

RECURSIVE IsSubSeq(_, _)
IsSubSeq(a, b) ==
    IF a = <<>> THEN TRUE
    ELSE IF b = <<>> THEN FALSE
    ELSE IF Head(a) = Head(b) THEN IsSubSeq(Tail(a), Tail(b))
    ELSE IsSubSeq(a, Tail(b))

Removals(name) ==
    Cardinality({k \in 1..Len(stdout) : stdout[k] = Msg("Removing: ", name, 0)})

LoopOver == pc \in {"decide", "done", "fatal"} /\ idx > Len(originalLines)

(***************************************************************************)
(* C1  Soundness: a manifest line whose name has a metadata entry with an   *)
(* import surface of which a member, or the root of a member, is in         *)
(* ImportedSet is kept by the decision loop and is in the manifest when     *)
(* the run is done, whatever the other lines and ProtectedSet are.          *)
(***************************************************************************)
SurfaceUsed(i) == HasMeta(NameOf(i)) /\ SurfaceImported(NameOf(i))

C1_Soundness == AllKept(SurfaceUsed)

\* PyYAML is kept for its import surface (yaml) alone, in a run that
\* rewrote the manifest
OnlySurfaceUsed(i) ==
    /\ NameOf(i) = "PyYAML" /\ SurfaceUsed(i)
    /\ ~ NameImported("PyYAML") /\ "pyyaml" \notin protectedDeps

C1_Witness == SomeKeptAfterRewrite(OnlySurfaceUsed)

(***************************************************************************)
(* C2  One-hop protection: when a manifest entry A is directly used and     *)
(* A's metadata lists B among its requirements, every line naming B is      *)
(* kept, also when B's own surface and name match nothing imported.         *)
(***************************************************************************)
DirectlyUsed(A) == HasMeta(A) /\ pkgInfoMap[A].imports \cap importedSet # {}

RequiredByUsed(i) ==
    \E A \in Range(reqPackages) :
        DirectlyUsed(A) /\ ToLower(NameOf(i)) \in pkgInfoMap[A].requires

C2_OneHopProtection == AllKept(RequiredByUsed)

\* idna is kept only because Requests, which is imported, requires it
OnlyProtected(i) ==
    /\ NameOf(i) = "idna" /\ RequiredByUsed(i)
    /\ HasMeta("idna") /\ ~ SurfaceImported("idna") /\ ~ NameImported("idna")

C2_Witness == SomeKeptAfterRewrite(OnlyProtected)

(***************************************************************************)
(* C3  Allow-list override: a line whose name, lower-cased, is in the       *)
(* development-tooling allow-list is kept, whatever ImportedSet, the        *)
(* metadata and ProtectedSet are.                                           *)
(***************************************************************************)
AllowListedLine(i) == AllowListed(NameOf(i))

C3_AllowListOverride == AllKept(AllowListedLine)

\* PyTest is kept with no metadata, no import and no protection
OnlyAllowListed(i) ==
    /\ NameOf(i) = "PyTest" /\ ~ NameImported("PyTest")
    /\ pkgInfoMap = <<>> /\ protectedDeps = {}

C3_Witness == SomeKeptAfterRewrite(OnlyAllowListed)

(***************************************************************************)
(* C4  Blank and comment-only lines: a line that is empty before its first  *)
(* '#', whitespace aside, is kept and is in the manifest when the run is    *)
(* done.                                                                    *)
(***************************************************************************)
BlankOrCommentLine(i) == BlankOrComment(originalLines[i])

C4_BlankAndCommentKept == AllKept(BlankOrCommentLine)

\* A run that removed a line kept a blank line and a comment line
C4_Witness ==
    /\ pc = "done" /\ writeCount = 1 /\ Len(originalLines) = 3
    /\ {"", "# deps"} \subseteq Range(originalLines)
    /\ DiskLines \in {<<"", "# deps">>, <<"# deps", "">>}

(***************************************************************************)
(* C5  Conservation: the kept lines are a subsequence of the input lines,   *)
(* and so are the lines of the manifest a run has written: each is an       *)
(* input line, unaltered, in input order, none added or duplicated.         *)
(***************************************************************************)
C5_Conservation ==
    /\ IsSubSeq(newLines, SubSeq(originalLines, 1, idx - 1))
    /\ pc \in {"fetch", "scan", "protect", "decide"} => originalLines = DiskLines
    /\ pc = "done" =>
          LET disk == DiskLines
          IN  /\ IsSubSeq(disk, originalLines)
              /\ writeCount = 1 => disk = newLines /\ reqText = WriteLines(newLines)

\* A rewritten manifest of two kept lines around a removed one
C5_Witness ==
    /\ pc = "done" /\ writeCount = 1
    /\ Len(originalLines) = 3 /\ Len(DiskLines) = 2
    /\ DiskLines[1] = originalLines[1] /\ DiskLines[2] = originalLines[3]
    /\ DiskLines[1] # DiskLines[2]
    /\ DiskLines[1] # originalLines[2]

(***************************************************************************)
(* C6  Idempotence: the run that follows a completed run, with the tree     *)
(* and the Python environment unchanged, removes no line and leaves the     *)
(* manifest as the first run left it.                                       *)
(***************************************************************************)
C6_Idempotence ==
    second => /\ removedCount = 0
              /\ writeCount = 0
              /\ reqText = firstText
              /\ pc = "done" => newLines = originalLines

\* The second run is done after a first run that kept a protected line and
\* removed another
C6_Witness ==
    /\ second /\ pc = "done" /\ firstRemoved = 1
    /\ Len(originalLines) = 2
    /\ "idna" \in protectedDeps
    /\ "idna" \in Range(originalLines)
    /\ stdout[Len(stdout)] = Msg("Clean.", "", 0)

(***************************************************************************)
(* C7  The manifest is written only when a line was removed: a step that    *)
(* creates or writes the file, or changes its content, is taken with        *)
(* removedCount > 0 and fewer kept lines than input lines.                  *)
(***************************************************************************)
C7_RewriteOnlyOnRemoval ==
    [][(reqText' # reqText \/ writeCount' > writeCount \/ reqExists' # reqExists)
          => removedCount > 0 /\ Len(newLines) < Len(originalLines)]_vars

\* A run that kept every line of a manifest of three lines and is done
\* without a write
C7_Witness ==
    /\ pc = "done" /\ ~ second
    /\ Len(originalLines) = 3 /\ newLines = originalLines
    /\ writeCount = 0 /\ originalLines = DiskLines
    /\ \E i \in DecidedIdx : ~ BlankOrComment(originalLines[i])

(***************************************************************************)
(* C8  Removal rule: a line that is not blank, comment-only or              *)
(* allow-listed, whose name is not in ProtectedSet, whose surface and its   *)
(* roots miss ImportedSet and whose name equals no ImportedSet member is    *)
(* not kept; the diagnostics naming a package are as many as the removed    *)
(* lines of that name; a run that is done has written the manifest          *)
(* without the line.                                                        *)
(***************************************************************************)
Unused(i, protected) ==
    /\ ~ BlankOrComment(originalLines[i])
    /\ NameOf(i) # ""
    /\ ~ AllowListed(NameOf(i))
    /\ ToLower(NameOf(i)) \notin protected
    /\ HasMeta(NameOf(i)) => ~ SurfaceImported(NameOf(i))
    /\ ~ NameImported(NameOf(i))

C8_RemovalRule ==
    LET kept == Range(newLines)
        disk == IF pc = "done" THEN Range(DiskLines) ELSE {}
    IN  \A i \in DecidedIdx :
            Unused(i, protectedDeps) =>
                /\ originalLines[i] \notin kept
                /\ Removals(NameOf(i)) =
                       Cardinality({j \in DecidedIdx : NameOf(j) = NameOf(i)})
                /\ removedCount >= 1
                /\ pc = "done" => writeCount = 1 /\ originalLines[i] \notin disk

\* PyYAML is removed from a manifest of three lines: one diagnostic, one
\* write
C8_Witness ==
    /\ pc = "done" /\ writeCount = 1 /\ removedCount = 1
    /\ Len(originalLines) = 3
    /\ \E i \in DecidedIdx :
          /\ Unused(i, protectedDeps) /\ NameOf(i) = "PyYAML"
          /\ originalLines[i] \notin Range(DiskLines)
    /\ Removals("PyYAML") = 1
    /\ stdout[Len(stdout)] = Msg("Removed %d packages.", "", 1)

(***************************************************************************)
(* C9  No manifest file: the run ends at the existence check with a         *)
(* diagnostic and exit status 1; no metadata query, no source scan and no   *)
(* write happens, and no manifest file is created.                          *)
(***************************************************************************)
C9_MissingManifestFatal ==
    ~ reqExists =>
        /\ pc \in {"stat", "fatal"}
        /\ queryCount = 0 /\ writeCount = 0
        /\ stdout = <<>> /\ importedSet = {} /\ originalLines = <<>>
        /\ reqText = ""
        /\ pc = "fatal" => /\ exitCode = 1
                           /\ stderr = <<Msg("requirements.txt not found", "", 0)>>

C9_Witness == ~ reqExists /\ pc = "fatal" /\ exitCode = 1 /\ Len(stderr) = 1

(***************************************************************************)
(* C10  Metadata failure is not fatal: when python cannot be run or its     *)
(* answer is not the expected JSON, the run goes on with an empty           *)
(* pkgInfoMap and an empty ProtectedSet, and a line that is not blank,      *)
(* comment-only or allow-listed is kept exactly when its name equals,       *)
(* letter case aside, a member of ImportedSet.                              *)
(***************************************************************************)
C10_MetadataFailureNonFatal ==
    (pyenv = "down" /\ queryCount = 1) =>
        /\ pkgInfoMap = <<>> /\ protectedDeps = {}
        /\ pc \in {"scan", "protect", "decide", "done", "fatal"}
        /\ pc = "fatal" => LoopOver /\ removedCount > 0
        /\ LET kept == Range(newLines)
           IN  \A i \in DecidedIdx :
                  (NameOf(i) # "" /\ ~ AllowListed(NameOf(i)))
                      => (originalLines[i] \in kept <=> NameImported(NameOf(i)))

\* With python down, Requests is kept for the import of requests, which
\* differs from it in letter case, and idna, which nothing imports, is
\* removed
C10_Witness ==
    /\ pyenv = "down" /\ pc = "done" /\ writeCount = 1
    /\ \E i, j \in DecidedIdx :
          /\ NameOf(i) = "Requests" /\ "Requests" \notin importedSet
          /\ originalLines[i] \in Range(newLines)
          /\ NameOf(j) = "idna" /\ originalLines[j] \notin Range(newLines)

(***************************************************************************)
(* C11  Manifest read or write failure is fatal: a run that could not open  *)
(* the manifest, or whose Scanner stopped with an error before the end of   *)
(* the file, or that could not create the output file, ends with a          *)
(* diagnostic and exit status 1; a run whose read failed does not complete  *)
(* and writes nothing, so the manifest is never rewritten from a partially  *)
(* read list of lines.                                                      *)
(***************************************************************************)
C11_ReadWriteFailureFatal ==
    /\ pc = "fatal" => exitCode = 1 /\ stderr # <<>> /\ writeCount = 0
    /\ scanErr # "" => /\ pc \in {"fetch", "scan", "protect", "decide", "fatal"}
                       /\ writeCount = 0

(***************************************************************************)
(* C12  The name fallback and the metadata.  As claimed: an entry that is   *)
(* not allow-listed or protected and has a metadata entry whose import      *)
(* surface misses ImportedSet is removed, even if its name equals an        *)
(* imported module name, letter case aside.                                 *)
(***************************************************************************)
MetaMissesNameHits(i) ==
    /\ NameOf(i) # "" /\ ~ AllowListed(NameOf(i))
    /\ ToLower(NameOf(i)) \notin protectedDeps
    /\ HasMeta(NameOf(i)) /\ ~ SurfaceImported(NameOf(i))
    /\ NameImported(NameOf(i))

C12_FallbackOnlyWithoutMetadata ==
    \A i \in DecidedIdx :
        MetaMissesNameHits(i) => originalLines[i] \notin Range(newLines)

(***************************************************************************)
(* C12, as the code has it: the name fallback is tried for every entry,     *)
(* with a metadata entry or without: a line whose name equals a member of   *)
(* ImportedSet, letter case aside, is kept and is in the manifest when the  *)
(* run is done.                                                             *)
(***************************************************************************)
NameImportedLine(i) == NameOf(i) # "" /\ NameImported(NameOf(i))

C12_FallbackWhateverMetadata == AllKept(NameImportedLine)

\* idna, installed in editable mode, has metadata with a surface that is
\* not imported, and is kept for its name in a run that rewrote the manifest
C12_Witness == SomeKeptAfterRewrite(MetaMissesNameHits)

(***************************************************************************)
(* C13  The key of an entry with extras.  As claimed: for a line written    *)
(* name[extra], the name sent in the metadata request, and the key of its   *)
(* metadata in pkgInfoMap when the query answered, is the bracketed string. *)
(***************************************************************************)
\* The requirement of a line up to its comparator, extras included
BracketedOf(line) == TrimSpace(Before(TrimSpace(Before(line, {"#"})), ComparatorChars))

\* BracketedOf of the lines of LinePool, computed once
BracketedTable == [line \in LinePool |-> BracketedOf(line)]

Bracketed(line) == IF line \in LinePool THEN BracketedTable[line] ELSE BracketedOf(line)

ExtrasTable == [line \in LinePool |-> Index(BracketedOf(line), "[") # 0]

HasExtras(line) ==
    IF line \in LinePool THEN ExtrasTable[line] ELSE Index(BracketedOf(line), "[") # 0

Answered == queryCount = 1 /\ pyenv # "down"

AfterProtect == pc \in {"decide", "done"} \/ (pc = "fatal" /\ queryCount = 1)

UsedEntries == {A \in DOMAIN pkgInfoMap : SurfaceImported(A)}

RequiresOfUsed == UNION {{ToLower(d) : d \in pkgInfoMap[A].requires} : A \in UsedEntries}

\* Some entry that is in ProtectedSet and is not used requires the name
RequiredByProtectedOnly(name) ==
    /\ ToLower(name) \notin RequiresOfUsed
    /\ \E B \in DOMAIN pkgInfoMap \ UsedEntries :
          ToLower(B) \in protectedDeps /\ ToLower(name) \in pkgInfoMap[B].requires

C14_ProtectedSetExact ==
    /\ ~ AfterProtect => protectedDeps = {}
    /\ AfterProtect =>
          /\ protectedDeps = RequiresOfUsed
          /\ \A p \in protectedDeps : p = ToLower(p)
          /\ \A i \in DecidedIdx :
                (/\ RequiredByProtectedOnly(NameOf(i))
                 /\ ~ AllowListed(NameOf(i))
                 /\ ~ SurfaceImported(NameOf(i))
                 /\ ~ NameImported(NameOf(i)))
                    => /\ ToLower(NameOf(i)) \notin protectedDeps
                       /\ originalLines[i] \notin Range(newLines)

\* Requests is used and requires idna; idna, kept for that, is not used and
\* requires PyYAML, which is removed
C14_Witness ==
    /\ pc = "done" /\ writeCount = 1 /\ removedCount = 1
    /\ "Requests" \in UsedEntries /\ "idna" \in DOMAIN pkgInfoMap \ UsedEntries
    /\ "idna" \in protectedDeps /\ "pyyaml" \notin protectedDeps
    /\ \E i, j \in DecidedIdx :
          /\ NameOf(i) = "idna" /\ originalLines[i] \in Range(DiskLines)
          /\ NameOf(j) = "PyYAML" /\ RequiredByProtectedOnly("PyYAML")
          /\ originalLines[j] \notin Range(DiskLines)

(***************************************************************************)
(* C15  Classification and ImportedSet: ImportedSet is empty until the      *)
(* scan; after it, for every import statement of every .py file that could  *)
(* be opened, a module path that is external (it does not start with '.',   *)
(* and the tree has neither <path>.py nor <path>/__init__.py for it) is in  *)
(* ImportedSet together with its first segment, and ImportedSet holds       *)
(* nothing but these paths and segments.                                    *)
(***************************************************************************)
AfterScan == pc \in {"protect", "decide", "done"} \/ (pc = "fatal" /\ queryCount = 1)

\* The module paths of the import statements of the files that were scanned
ScannedModulesOf(t) ==
    UNION {{item.Module : item \in Range(extractImports(f.root))}
           : f \in {f \in TreeOf(t) : f.readable /\ HasSuffix(f.path, ".py")}}

LocalPathOf(t, m) ==
    LET file == ReplaceAll(m, ".", "/")
    IN  \/ Ch(m, 1) = "."
        \/ \E f \in TreeOf(t) : f.path \in {file \o ".py", file \o "/__init__.py"}

\* Both for the trees of TreePool, computed once
ScannedTable == [t \in TreePool |-> ScannedModulesOf(t)]

ExternTable == [t \in TreePool |-> {m \in ScannedModulesOf(t) : ~ LocalPathOf(t, m)}]

ScannedModules == ScannedTable[tree]

LocalPath(m) == LocalPathOf(tree, m)

FirstSegment(m) == IF Index(m, ".") = 0 THEN m ELSE SubSeq(m, 1, Index(m, ".") - 1)

C15_ClassificationFeedsImportedSet ==
    /\ ~ AfterScan => importedSet = {}
    /\ AfterScan =>
          LET extern == ExternTable[tree]
          IN  /\ \A m \in extern : m \in importedSet /\ FirstSegment(m) \in importedSet
              /\ \A x \in importedSet : \E m \in extern : x = m \/ x = FirstSegment(m)
              /\ \A m \in ScannedModules \ extern :
                    m \in importedSet => \E e \in extern : m = FirstSegment(e)

\* app.py imports requests.adapters under an alias, util (a file of the
\* project) and, relatively, util again; util.py imports os.path
C15_Witness ==
    /\ pc = "done" /\ tree = "uses-requests"
    /\ ScannedModules = {"requests.adapters", "util", ".", "os.path"}
    /\ importedSet = {"requests.adapters", "requests", "os.path", "os"}

(***************************************************************************)
(* C16  No alias in an ImportItem: for every aliased target `a.b.c as d`    *)
(* of a plain import of a scanned file, extractImports yields an item of    *)
(* type import with module a.b.c; for every from-import it yields an item   *)
(* with the content of the module field as module, or "." when there is     *)
(* none, a module the classifier takes as local, and with the original      *)
(* name of every aliased name; no module and no name of any item is an      *)
(* alias or the text of an aliased target.                                  *)
(***************************************************************************)
RECURSIVE NodesOf(_)
NodesOf(n) == {n} \cup UNION {NodesOf(n.children[i]) : i \in 1..Len(n.children)}

\* The identifier after " as " of an aliased_import node
AliasOf(n) == SubSeq(n.text, Len(n.name) + 5, Len(n.text))

AliasedIn(n) == {c \in Range(n.children) : c.type = "aliased_import"}

NoAliasIn(root) ==
    LET items   == Range(extractImports(root))
        nodes   == NodesOf(root)
        aliased == {c \in nodes : c.type = "aliased_import"}
        banned  == {AliasOf(c) : c \in aliased} \cup {c.text : c \in aliased}
    IN  /\ \A s \in {n \in nodes : n.type = "import_statement"} :
              \A c \in AliasedIn(s) :
                  [Type |-> "import", Module |-> c.name, Names |-> <<>>] \in items
        /\ \A s \in {n \in nodes : n.type = "import_from_statement"} :
              \E item \in items :
                  /\ item.Type = "from"
                  /\ item.Module = IF s.modIdx = 0 THEN "." ELSE s.children[s.modIdx].text
                  /\ s.modIdx = 0 => LocalPath(item.Module)
                  /\ \A c \in AliasedIn(s) : c.name \in Range(item.Names)
        /\ \A item \in items :
              item.Module \notin banned /\ Range(item.Names) \cap banned = {}

C16_NoAliasReported ==
    pc = "protect" =>
        \A f \in {f \in TreeOf(tree) : HasSuffix(f.path, ".py")} : NoAliasIn(f.root)

\* The scan has met `import idna as codec`, `from yaml import safe_load as
\* load` and the from-import without a module
C16_Witness ==
    /\ pc = "protect" /\ tree = "uses-yaml"
    /\ LET items == UNION {Range(extractImports(f.root)) : f \in TreeOf(tree)}
       IN  /\ [Type |-> "import", Module |-> "idna", Names |-> <<>>] \in items
           /\ [Type |-> "from", Module |-> "yaml", Names |-> <<"safe_load">>] \in items
           /\ [Type |-> "from", Module |-> ".", Names |-> <<"dumps">>] \in items
    /\ importedSet = {"yaml", "idna"}

(***************************************************************************)
(* C17  One metadata query per run: up to the end of the manifest read no   *)
(* query has been issued, nothing has been scanned and nothing decided;     *)
(* from the source scan on exactly one has, with the list of all the names  *)
(* of the lines read, whatever the numbers of lines and of source files;    *)
(* and it is over, pkgInfoMap being what it left, before the scan and the   *)
(* first decision.                                                          *)
(***************************************************************************)
\* The names of the lines read from the i-th on, in order
RECURSIVE NamesRead(_)
NamesRead(i) ==
    IF i > Len(originalLines) THEN <<>>
    ELSE (IF NameOf(i) # "" THEN <<NameOf(i)>> ELSE <<>>) \o NamesRead(i + 1)

C17_QueryOnceBeforeScan ==
    /\ pc \in {"stat", "open", "fetch"} =>
          /\ queryCount = 0 /\ queryArgs = <<>> /\ pkgInfoMap = <<>>
          /\ importedSet = {} /\ idx = 1 /\ newLines = <<>> /\ removedCount = 0
    /\ pc \in {"scan", "protect", "decide", "done"} =>
          /\ queryCount = 1
          /\ queryArgs = <<reqPackages>>
          /\ reqPackages = NamesRead(1)
          /\ Answered => DOMAIN pkgInfoMap = Range(reqPackages)
    /\ pc = "fatal" => queryCount <= 1
    /\ (importedSet # {} \/ idx > 1) => queryCount = 1

\* A run over three named lines and a tree of three files is done after one
\* query for the three names
C17_Witness ==
    /\ pc = "done" /\ queryCount = 1
    /\ Len(reqPackages) = 3 /\ queryArgs = <<reqPackages>>
    /\ Cardinality(TreeOf(tree)) = 3
    /\ idx = 4

(***************************************************************************)
(* C18  Every name in the requires of an answered metadata entry is a bare  *)
(* lower-case package name: no character of a version comparator (~= and    *)
(* != included), of a parenthesised version, of an environment marker or    *)
(* of bracketed extras is left in it.                                       *)
(***************************************************************************)
SpecifierChars == {"<", ">", "=", "~", "!", "(", ")", ";", "[", "]", " "}

BareName(name) ==
    /\ name = ToLower(name)
    /\ \A i \in 1..Len(name) : Ch(name, i) \notin SpecifierChars

C18_DirectRequiresBareNames ==
    Answered => \A key \in DOMAIN pkgInfoMap :
                   \A dep \in pkgInfoMap[key].requires : BareName(dep)

(***************************************************************************)
(* C19  Every line of the manifest gets one decision: when the loop is over *)
(* the kept lines and the removed lines together are as many as the lines   *)
(* of the manifest, there are as many "Removing:" diagnostics as lines      *)
(* counted as removed, and the final report gives that count.               *)
(***************************************************************************)
\* The number of lines of a text: one per newline, and one for an
\* unterminated last line
LineCount(data) ==
    Cardinality({i \in 1..Len(data) : Ch(data, i) = "\n"})
        + (IF data # "" /\ Ch(data, Len(data)) # "\n" THEN 1 ELSE 0)

RemovalDiagnostics == {k \in 1..Len(stdout) : stdout[k].text = "Removing: "}

C19_OneDecisionPerLine ==
    /\ removedCount = Cardinality(RemovalDiagnostics)
    /\ pc = "decide" /\ idx > Len(originalLines) =>
          Len(newLines) + removedCount = LineCount(reqText)
    /\ pc = "done" /\ removedCount > 0 =>
          stdout[Len(stdout)] = Msg("Removed %d packages.", "", removedCount)

(***************************************************************************)
(* C20  The keep decision is monotone in ImportedSet and a function of the  *)
(* parsed name: with the manifest and the metadata of the run, a line the   *)
(* loop would keep under a subset of ImportedSet is kept, a line that is    *)
(* kept would be kept under every superset of ImportedSet, and two lines    *)
(* with the same parsed name are both kept or both removed.                 *)
(***************************************************************************)
\* What the loop decides for a line when the scan has found `imported`
DecisionUnder(line, imported) ==
    KeepLine(line, pkgInfoMap, imported, ProtectedDepsOf(pkgInfoMap, imported))

\* Modules a larger scan could add to ImportedSet
MoreModules == {"requests", "yaml", "idna", "PyYAML"}

Kept(i) == originalLines[i] \in Range(newLines)

C20_KeepMonotoneInImports ==
    AfterProtect =>
        /\ \A i \in DecidedIdx :
              /\ \A less \in SUBSET importedSet :
                    DecisionUnder(originalLines[i], less) => Kept(i)
              /\ \A more \in SUBSET MoreModules :
                    Kept(i) => DecisionUnder(originalLines[i], importedSet \cup more)
        /\ \A i, j \in DecidedIdx :
              parsePackageName(originalLines[i]) = parsePackageName(originalLines[j])
                  => (Kept(i) <=> Kept(j))

\* A finished run kept two different lines of one name, removed two
\* different lines of another, and a kept line would have been removed
\* under a smaller ImportedSet
C20_Witness ==
    /\ pc = "done"
    /\ \E i, j \in DecidedIdx :
          /\ originalLines[i] # originalLines[j]
          /\ parsePackageName(originalLines[i]) = parsePackageName(originalLines[j])
          /\ Kept(i) /\ Kept(j)
          /\ \E less \in SUBSET importedSet : ~ DecisionUnder(originalLines[i], less)
    /\ \E i \in DecidedIdx :
          /\ ~ Kept(i)
          /\ \E more \in SUBSET MoreModules :
                DecisionUnder(originalLines[i], importedSet \cup more)
====
